---- MODULE Spec2Model ----
(***************************************************************************)
(* Monotone coupling from the past on the lozenge tilings of an a x b x c  *)
(* hexagon (src/src/misc/cftp.py), and the traversal of the words of the   *)
(* modular group (src/src/Misc/Modular_Group.py).                          *)
(*                                                                         *)
(* A state of the chain is a path system: a function s with s[k][j] the    *)
(* height of path k (0..c+1) at position j (0..a+b).                       *)
(***************************************************************************)
EXTENDS Integers, Sequences, FiniteSets, TLC

VARIABLES
    size,       \* the hexagon (a, b, c): LozengeTiling.size
    \* ---- a walk of the chain: repeated calls of update on one state
    ext,        \* the pair returned by min_max_states()
    origin,     \* 1 or 2: which state of ext the walk started from
    s,          \* the state the walk mutates in place
    prev,       \* s before the last call of update
    u,          \* the argument of the last call of update (None before it)
    seen,       \* the walk has passed through the other state of ext
    \* ---- two ordered states that receive the same update
    lo,         \* the pointwise smaller state
    hi,         \* the pointwise larger state
    moved,      \* which of the two the last update changed (None before it)
    \* ---- run_cftp
    pc,         \* the driver's position in run_cftp
    updates,    \* the list of epochs <<rng, steps>>, processed front to back
    s0,         \* the trajectory started from the first state of min_max_states()
    s1,         \* the trajectory started from the second state
    rng_next,   \* the snapshot saved after the first epoch of the round
    rng,        \* the state of the random source
    stream,     \* the updates the random source has produced so far, by position
    ei,         \* index in updates of the epoch the for loop is at
    left,       \* iterations of the inner loop still to run in this epoch
    applied,    \* the updates applied in this round, in order, with their draws
    prevApplied,\* applied, of the round before
    ret,        \* the state run_cftp returned (NoState while it runs)
    mid,        \* where this round's updates have taken the states in between
    \* ---- get_tiles
    tiled,      \* the state given to get_tiles
    verts,      \* the dict get_tiles returned (NoTiles before the call)
    \* ---- traverse
    length,     \* the argument length of traverse
    queue,      \* the deque of (word, state, domain)
    yielded     \* what the generator has yielded so far, in order

chainVars == <<ext, origin, s, prev, u, seen>>
pairVars == <<lo, hi, moved>>
cftpVars == <<pc, updates, s0, s1, rng_next, rng, stream, ei, left, applied,
              prevApplied, ret, mid>>
tileVars == <<tiled, verts>>
wordVars == <<length, queue, yielded>>
vars == <<size, chainVars, pairVars, cftpVars, tileVars, wordVars>>

None == "None"
NoState == <<>>

\* ---- bounds of the model
MaxSide == 2            \* side lengths a, b, c of the hexagons
MaxVolume == 2          \* a * b * c of the hexagons of the ordered pairs
MaxChoices == 4         \* outcomes of new_random_update in the driver's hexagons
MaxDraws == 7           \* positions of the random stream the driver is followed for

Max(x, y) == IF x >= y THEN x ELSE y
Min(x, y) == IF x <= y THEN x ELSE y

Sizes == (1..MaxSide) \X (1..MaxSide) \X (1..MaxSide)

A(sz) == sz[1]
B(sz) == sz[2]
C(sz) == sz[3]

\* ---- LozengeTiling.min_max_states
\* the first state with the sides a and b taken for each other
MinStateSidesSwapped(sz) ==
    [k \in 0..(C(sz) + 1) |->
        [j \in 0..(A(sz) + B(sz)) |->
            IF k = 0 THEN Max(j - A(sz), 0) ELSE k + Min(j, A(sz))]]

MinState(sz) ==
    [k \in 0..(C(sz) + 1) |->
        [j \in 0..(A(sz) + B(sz)) |->
            IF k = 0 THEN Max(j - A(sz), 0) ELSE k + Min(j, B(sz))]]

MaxState(sz) ==
    [k \in 0..(C(sz) + 1) |->
        [j \in 0..(A(sz) + B(sz)) |->
            IF k = C(sz) + 1 THEN C(sz) + 1 + Min(j, B(sz))
            ELSE k + Max(j - A(sz), 0)]]

min_max_states(sz) == <<MinState(sz), MaxState(sz)>>

\* the draw that takes j from every column but the first
new_random_update_to_last_column(sz) ==
    (1..C(sz)) \X (1..(A(sz) + B(sz))) \X {0, 1}

\* ---- LozengeTiling.new_random_update: the triples it can return
new_random_update(sz) ==
    (1..C(sz)) \X (1..(A(sz) + B(sz) - 1)) \X {0, 1}

\* ---- LozengeTiling.update
\* the push up that does not look at the path above
PushUpLegalNoUpper(st, k, j) ==
    /\ st[k][j - 1] = st[k][j]
    /\ st[k][j] < st[k][j + 1]

\* the push up that is made only when the path above is in the way
PushUpLegalWhenBlocked(st, k, j) ==
    /\ st[k][j - 1] = st[k][j]
    /\ st[k][j] < st[k][j + 1]
    /\ st[k][j + 1] + 1 = st[k + 1][j]

PushUpLegal(st, k, j) ==
    /\ st[k][j - 1] = st[k][j]
    /\ st[k][j] < st[k][j + 1]
    /\ st[k][j + 1] < st[k + 1][j]

\* the push down that lets the path touch the path below
PushDownLegalWeak(st, k, j) ==
    /\ st[k - 1][j] <= st[k][j - 1]
    /\ st[k][j - 1] < st[k][j]
    /\ st[k][j] = st[k][j + 1]

\* the push down that looks at the path above instead of the path below
PushDownLegalWrongPath(st, k, j) ==
    /\ st[k + 1][j] < st[k][j - 1]
    /\ st[k][j - 1] < st[k][j]
    /\ st[k][j] = st[k][j + 1]

PushDownLegal(st, k, j) ==
    /\ st[k - 1][j] < st[k][j - 1]
    /\ st[k][j - 1] < st[k][j]
    /\ st[k][j] = st[k][j + 1]

update(st, up) ==
    LET k == up[1]
        j == up[2]
        dy == up[3]
    IN  IF dy = 1
        THEN IF PushUpLegal(st, k, j)
             THEN [st EXCEPT ![k][j] = @ + 1]
             ELSE st
        ELSE IF PushDownLegal(st, k, j)
             THEN [st EXCEPT ![k][j] = @ - 1]
             ELSE st

\* ---- the pointwise order and the state invariants of the data model
Leq(x, y) ==
    \A k \in DOMAIN x : \A j \in DOMAIN x[k] : x[k][j] <= y[k][j]

PathMonotone(st, sz) ==
    \A k \in 0..(C(sz) + 1) : \A j \in 0..(A(sz) + B(sz) - 1) :
        st[k][j + 1] - st[k][j] \in {0, 1}

NonCrossing(st, sz) ==
    \A j \in 0..(A(sz) + B(sz)) : \A k \in 0..C(sz) :
        st[k][j] <= st[k + 1][j]

StateInvariant(st, sz) == PathMonotone(st, sz) /\ NonCrossing(st, sz)

\* ---- the walk: T = LozengeTiling(size); s0, s1 = T.min_max_states();
\* ---- then T.update(s, u) over and over
NoChain ==
    /\ ext = None
    /\ origin = None
    /\ s = None
    /\ prev = None
    /\ u = None
    /\ seen = FALSE

NoPair ==
    /\ lo = None
    /\ hi = None
    /\ moved = None

NoCftp ==
    /\ pc = None
    /\ updates = <<>>
    /\ s0 = NoState
    /\ s1 = NoState
    /\ rng_next = <<>>
    /\ rng = 0
    /\ stream = <<>>
    /\ ei = 0
    /\ left = 0
    /\ applied = <<>>
    /\ prevApplied = <<>>
    /\ ret = NoState
    /\ mid = {}

NoTiles == <<>>

NoTiling ==
    /\ tiled = NoState
    /\ verts = NoTiles

NoTraverse ==
    /\ length = 0
    /\ queue = <<>>
    /\ yielded = <<>>

InitChain ==
    /\ size \in Sizes
    /\ NoPair
    /\ NoCftp
    /\ NoTiling
    /\ NoTraverse
    /\ ext = min_max_states(size)
    /\ origin \in {1, 2}
    /\ s = ext[origin]
    /\ prev = ext[origin]
    /\ u = None
    /\ seen = FALSE

Update(up) ==
    /\ prev' = s
    /\ u' = up
    /\ s' = update(s, up)
    /\ seen' = (seen \/ s' = ext[3 - origin])
    /\ UNCHANGED <<size, ext, origin, pairVars, cftpVars, tileVars,
                   wordVars>>

Next == \E up \in new_random_update(size) : Update(up)

Init == InitChain

Spec == Init /\ [][Next]_vars

\* C1: every state reachable from either extremal state by update calls
\* satisfies path monotonicity (steps of 0 or 1 along each path) and
\* non-crossing (height(k,j) <= height(k+1,j)).
C1_InvariantsPreserved == StateInvariant(s, size)

\* a push has been applied and a later update was refused
C1_Witness ==
    /\ u # None
    /\ s = prev
    /\ s # ext[origin]
    /\ StateInvariant(s, size)

\* C9: update is a no-op when the adjacency condition of its direction fails
\* and changes exactly cell (k,j) when it holds: push up (dy = 1) by +1 iff
\* height(k,j-1) = height(k,j) < height(k,j+1) < height(k+1,j), push down
\* (dy = 0) by -1 iff height(k-1,j) < height(k,j-1) < height(k,j) = height(k,j+1).
C9_UpdateEffect ==
    u # None =>
        LET k == u[1]
            j == u[2]
            dy == u[3]
            cond == IF dy = 1
                    THEN /\ prev[k][j - 1] = prev[k][j]
                         /\ prev[k][j] < prev[k][j + 1]
                         /\ prev[k][j + 1] < prev[k + 1][j]
                    ELSE /\ prev[k - 1][j] < prev[k][j - 1]
                         /\ prev[k][j - 1] < prev[k][j]
                         /\ prev[k][j] = prev[k][j + 1]
            delta == IF dy = 1 THEN 1 ELSE -1
        IN  /\ (s # prev) <=> cond
            /\ DOMAIN s = DOMAIN prev
            /\ \A kk \in DOMAIN prev :
                  /\ DOMAIN s[kk] = DOMAIN prev[kk]
                  /\ \A jj \in DOMAIN prev[kk] :
                        s[kk][jj] = IF cond /\ kk = k /\ jj = j
                                    THEN prev[kk][jj] + delta
                                    ELSE prev[kk][jj]

\* a push up that changed the state, applied to a state already pushed down
C9_Witness ==
    /\ u # None
    /\ u[3] = 1
    /\ s # prev
    /\ s[u[1]][u[2]] = prev[u[1]][u[2]] + 1
    /\ prev # ext[1]
    /\ prev # ext[2]

\* ---- the states reachable from a state by update calls
RECURSIVE Closure(_, _, _)
Closure(sz, frontier, visited) ==
    IF frontier = {}
    THEN visited
    ELSE LET nxt == {update(st, up) : st \in frontier,
                                      up \in new_random_update(sz)} \ visited
         IN  Closure(sz, nxt, visited \cup nxt)

Reachable(sz, st) == Closure(sz, {st}, {st})

Between(st, x, y) ==
    \/ Leq(x, st) /\ Leq(st, y)
    \/ Leq(y, st) /\ Leq(st, x)

\* C6 (as amended): min_max_states() returns (s0, s1) with s1 <= s0
\* pointwise: the first state returned is the pointwise larger one.
C6_SecondBelowFirst ==
    /\ Leq(ext[2], ext[1])
    /\ DOMAIN ext[1] = 0..(C(size) + 1)
    /\ \A k \in DOMAIN ext[1] : DOMAIN ext[1][k] = 0..(A(size) + B(size))

\* C6 (as stated): min_max_states() returns (s0, s1) with s0 <= s1
\* pointwise, s0[k][j] <= s1[k][j] for every k in [0,c+1], j in [0,a+b].
C6_AsStated ==
    \A k \in 0..(C(size) + 1) : \A j \in 0..(A(size) + B(size)) :
        ext[1][k][j] <= ext[2][k][j]

\* min_max_states() has returned two states that differ on an inner path
C6_Witness ==
    /\ u = None
    /\ s = ext[origin]
    /\ \E k \in 1..C(size) : \E j \in 1..(A(size) + B(size) - 1) :
          ext[2][k][j] < ext[1][k][j]
    /\ A(size) # B(size)

\* C10: the two states returned by min_max_states() are the extremes of the
\* state space: every state reachable from either lies pointwise between the
\* two, and each of the two is reachable from the other.
C10_Extremes ==
    /\ Between(s, ext[1], ext[2])
    /\ u = None => ext[3 - origin] \in Reachable(size, ext[origin])

\* the walk went from one extreme through the other and came back
C10_Witness ==
    /\ seen
    /\ s = ext[origin]
    /\ u # None
    /\ s # prev
    /\ size = <<MaxSide, MaxSide, MaxSide>>

\* ---- two states of one hexagon under the same update, as run_cftp applies
\* ---- it to its two trajectories (mc.update(s0, u); mc.update(s1, u))

\* the hexagons with a * b * c <= MaxVolume
SmallSizes == {sz \in Sizes : A(sz) * B(sz) * C(sz) <= MaxVolume}

\* one path: heights with steps of 0 or 1
PathsOf(sz) ==
    {p \in [0..(A(sz) + B(sz)) -> 0..(C(sz) + 1 + B(sz))] :
        \A j \in 0..(A(sz) + B(sz) - 1) : p[j + 1] - p[j] \in {0, 1}}

\* the path systems of the hexagon that satisfy the state invariants: the
\* two fixed boundary paths of min_max_states(), and between them c paths
WithBoundary(sz, inner) ==
    [k \in 0..(C(sz) + 1) |->
        IF k = 0 THEN MinState(sz)[0]
        ELSE IF k = C(sz) + 1 THEN MaxState(sz)[C(sz) + 1]
        ELSE inner[k]]

InvStates(sz) ==
    {st \in {WithBoundary(sz, inner) : inner \in [1..C(sz) -> PathsOf(sz)]} :
        StateInvariant(st, sz)}

OrderedPairs(sz) ==
    LET all == InvStates(sz)
    IN  {pair \in all \X all : Leq(pair[1], pair[2])}

WhichMoved(x, y, x2, y2) ==
    IF x2 # x /\ y2 # y THEN "both"
    ELSE IF x2 # x THEN "lo"
    ELSE IF y2 # y THEN "hi"
    ELSE "neither"

InitPair ==
    /\ size \in SmallSizes
    /\ NoChain
    /\ NoCftp
    /\ NoTiling
    /\ NoTraverse
    /\ \E pair \in OrderedPairs(size) :
          /\ lo = pair[1]
          /\ hi = pair[2]
    /\ moved = None

UpdateBoth(up) ==
    /\ lo' = update(lo, up)
    /\ hi' = update(hi, up)
    /\ moved' = WhichMoved(lo, hi, lo', hi')
    /\ UNCHANGED <<size, chainVars, cftpVars, tileVars, wordVars>>

NextPair == \E up \in new_random_update(size) : UpdateBoth(up)

SpecPair == InitPair /\ [][NextPair]_vars

\* C2: the update rule is monotone: two invariant-satisfying states of one
\* hexagon that are ordered pointwise are still ordered the same way after
\* the same update (k,j,dy) is applied to both.
C2_Monotone ==
    /\ \A k \in 0..(C(size) + 1) : \A j \in 0..(A(size) + B(size)) :
          lo[k][j] <= hi[k][j]
    /\ DOMAIN lo = DOMAIN hi

\* an update changed one of two different states and was refused by the other
C2_Witness ==
    /\ moved \in {"lo", "hi"}
    /\ lo # hi
    /\ \E k \in 1..C(size) : \E j \in 1..(A(size) + B(size) - 1) :
          lo[k][j] < hi[k][j]

\* ---- run_cftp
\* The random source is deterministic: its state after n calls of
\* new_random_update from a given state is fixed, and so is what each call
\* returns.  A state of the source is modelled by its position, the number
\* of calls of new_random_update that lead to it from the state run_cftp
\* found, and stream[p + 1] is what the call made at position p returns:
\* any triple the first time, the same triple ever after.

RECURSIVE Pow2(_)
Pow2(n) == IF n = 0 THEN 1 ELSE 2 * Pow2(n - 1)

\* random.getstate() and random.setstate(snapshot): a snapshot is <<p>>, the
\* position p of the source when it was taken, and NoSnapshot is Python's None
NoSnapshot == <<>>

GetState(position) == <<position>>

SetState(snapshot) == snapshot[1]

\* the new epoch put behind the others instead of in front
InsertEpochAtEnd(eps, snapshot) == eps \o <<<<snapshot, Pow2(Len(eps))>>>>

\* 2 * len(updates) for 2 ** len(updates)
InsertEpochTwiceLen(eps, snapshot) == <<<<snapshot, 2 * Len(eps)>>>> \o eps

\* updates.insert(0, (rng_next, 2**len(updates)))
InsertEpoch(eps, snapshot) == <<<<snapshot, Pow2(Len(eps))>>>> \o eps

\* the snapshot taken after every epoch, the last one kept
SaveRngNextLatest(saved, current) == GetState(current)

\* if rng_next is None: rng_next = random.getstate()
SaveRngNext(saved, current) ==
    IF saved = NoSnapshot THEN GetState(current) ELSE saved

\* the comparison of the fixed path 0 alone
CoupledOnPathZero(x, y) == x[0] = y[0]

\* s0 == s1
Coupled(x, y) == x = y

\* the invariant-satisfying states between the two extremal states: their
\* paths go from k to k + b, so each is given by the b places where it steps up
UpSets(sz) ==
    {ups \in SUBSET (1..(A(sz) + B(sz))) : Cardinality(ups) = B(sz)}

PathFrom(sz, k, ups) ==
    [j \in 0..(A(sz) + B(sz)) |-> k + Cardinality({i \in ups : i <= j})]

MidStates(sz) ==
    {st \in {WithBoundary(sz, [k \in 1..C(sz) |-> PathFrom(sz, k, f[k])]) :
                f \in [1..C(sz) -> UpSets(sz)]} :
        StateInvariant(st, sz) /\ Between(st, MinState(sz), MaxState(sz))}

\* the hexagons the driver is run on
DriverSizes == {sz \in Sizes : Cardinality(new_random_update(sz)) <= MaxChoices}

InitCftp ==
    /\ size \in DriverSizes
    /\ NoChain
    /\ NoPair
    /\ NoTiling
    /\ NoTraverse
    /\ pc = "while"
    /\ updates = <<<<GetState(0), 1>>>>
    /\ s0 = NoState
    /\ s1 = NoState
    /\ rng_next = NoSnapshot
    /\ rng = 0
    /\ stream = <<>>
    /\ ei = 0
    /\ left = 0
    /\ applied = <<>>
    /\ prevApplied = <<>>
    /\ ret = NoState
    /\ mid = {}

\* the round that goes on with the two lists the round before has mutated
BeginRoundOnStaleStates ==
    /\ pc = "while"
    /\ s0' = IF s0 = NoState THEN min_max_states(size)[1] ELSE s0
    /\ s1' = IF s1 = NoState THEN min_max_states(size)[2] ELSE s1
    /\ rng_next' = NoSnapshot
    /\ ei' = 1
    /\ prevApplied' = applied
    /\ applied' = <<>>
    /\ mid' = MidStates(size)
    /\ pc' = "for"
    /\ UNCHANGED <<size, chainVars, pairVars, tileVars, wordVars,
                   updates, rng, stream, left, ret>>

\* s0, s1 = mc.min_max_states(); rng_next = None; enter the for loop
BeginRound ==
    /\ pc = "while"
    /\ s0' = min_max_states(size)[1]
    /\ s1' = min_max_states(size)[2]
    /\ rng_next' = NoSnapshot
    /\ ei' = 1
    /\ prevApplied' = applied
    /\ applied' = <<>>
    /\ mid' = MidStates(size)
    /\ pc' = "for"
    /\ UNCHANGED <<size, chainVars, pairVars, tileVars, wordVars,
                   updates, rng, stream, left, ret>>

\* for rng, steps in updates: random.setstate(rng)
BeginEpoch ==
    /\ pc = "for"
    /\ ei <= Len(updates)
    /\ rng' = SetState(updates[ei][1])
    /\ left' = updates[ei][2]
    /\ pc' = "steps"
    /\ UNCHANGED <<size, chainVars, pairVars, tileVars, wordVars,
                   updates, s0, s1, rng_next, stream,
                   ei, applied, prevApplied, ret, mid>>

\* u = mc.new_random_update(); mc.update(s0, u); mc.update(s1, u)
Step ==
    /\ pc = "steps"
    /\ left > 0
    /\ rng < Len(stream) \/ (rng = Len(stream) /\ Len(stream) < MaxDraws)
    /\ \E up \in new_random_update(size) :
          /\ rng < Len(stream) => up = stream[rng + 1]
          /\ stream' = IF rng = Len(stream) THEN Append(stream, up) ELSE stream
          /\ s0' = update(s0, up)
          /\ s1' = update(s1, up)
          /\ mid' = {update(st, up) : st \in mid}
          /\ applied' = Append(applied, [pos |-> rng, u |-> up,
                                         fresh |-> rng = Len(stream)])
    /\ rng' = rng + 1
    /\ left' = left - 1
    /\ UNCHANGED <<size, chainVars, pairVars, tileVars, wordVars,
                   pc, updates, rng_next, ei,
                   prevApplied, ret>>

\* the inner loop is over: save the snapshot after the first epoch
EndEpoch ==
    /\ pc = "steps"
    /\ left = 0
    /\ rng_next' = SaveRngNext(rng_next, rng)
    /\ ei' = ei + 1
    /\ pc' = "for"
    /\ UNCHANGED <<size, chainVars, pairVars, tileVars, wordVars,
                   updates, s0, s1, rng, stream, left,
                   applied, prevApplied, ret, mid>>

\* if s0 == s1: break; random.setstate(rng_next); return s0
Break ==
    /\ pc = "for"
    /\ ei > Len(updates)
    /\ Coupled(s0, s1)
    /\ rng' = SetState(rng_next)
    /\ ret' = s0
    /\ pc' = "done"
    /\ UNCHANGED <<size, chainVars, pairVars, tileVars, wordVars,
                   updates, s0, s1, rng_next, stream,
                   ei, left, applied, prevApplied, mid>>

\* else: updates.insert(0, (rng_next, 2**len(updates)))
LookFurtherBack ==
    /\ pc = "for"
    /\ ei > Len(updates)
    /\ ~Coupled(s0, s1)
    /\ updates' = InsertEpoch(updates, rng_next)
    /\ pc' = "while"
    /\ UNCHANGED <<size, chainVars, pairVars, tileVars, wordVars,
                   s0, s1, rng_next, rng, stream, ei,
                   left, applied, prevApplied, ret, mid>>

NextCftp ==
    \/ BeginRound
    \/ BeginEpoch
    \/ Step
    \/ EndEpoch
    \/ Break
    \/ LookFurtherBack

SpecCftp == InitCftp /\ [][NextCftp]_vars

\* ---- what a round has done
RECURSIVE SumSteps(_)
SumSteps(eps) == IF eps = <<>> THEN 0 ELSE Head(eps)[2] + SumSteps(Tail(eps))

InRound == pc \in {"for", "steps", "done"}

RoundComplete == (pc = "for" /\ ei > Len(updates)) \/ pc = "done"

\* C3: the randomness is replayed exactly: the update applied t steps before
\* time 0 is the same triple, drawn at the same position of the stream, as in
\* the round before whenever that round reached back t steps; only the first
\* (newly prepended) epoch draws at positions never used before; no position
\* is used for two time offsets.
C3_Replay ==
    InRound =>
        LET total == SumSteps(updates)
            m == Len(prevApplied)
        IN  /\ \A i \in 1..Len(applied) :
                  LET t == total - i + 1
                  IN  /\ t >= 1
                      /\ t <= m => /\ applied[i].u = prevApplied[m - t + 1].u
                                   /\ applied[i].pos = prevApplied[m - t + 1].pos
                                   /\ ~applied[i].fresh
                      /\ t > m => applied[i].fresh
                      /\ applied[i].fresh <=> i <= updates[1][2]
            /\ \A i \in 1..Len(applied) : \A j \in 1..Len(applied) :
                  i # j => applied[i].pos # applied[j].pos
            /\ RoundComplete => Len(applied) = total

\* the third round is over: four fresh draws, then the three of round two
C3_Witness ==
    /\ pc = "for"
    /\ ei > Len(updates)
    /\ Len(updates) = 3
    /\ Len(applied) = 7
    /\ Len(prevApplied) = 3
    /\ applied[5].u # applied[6].u

\* C4: run_cftp leaves its loop only at the end of a round, all epochs
\* replayed, with the two trajectories equal cell for cell; it returns that
\* common state, which satisfies the state invariants; it has no other exit.
C4_ExitOnlyCoalesced ==
    /\ pc \in {"while", "for", "steps", "done"}
    /\ ret # NoState <=> pc = "done"
    /\ pc = "done" =>
          /\ \A k \in 0..(C(size) + 1) : \A j \in 0..(A(size) + B(size)) :
                s0[k][j] = s1[k][j]
          /\ ret = s0
          /\ ret = s1
          /\ StateInvariant(ret, size)
          /\ ei = Len(updates) + 1
          /\ Len(applied) = SumSteps(updates)

\* run_cftp has returned after three rounds
C4_Witness ==
    /\ pc = "done"
    /\ Len(updates) = 3
    /\ ret = s0
    /\ ret # min_max_states(size)[1]
    /\ ret # min_max_states(size)[2]

\* C5: in the round in which run_cftp exits, that round's whole update
\* sequence takes every invariant-satisfying state between the two extremal
\* states to the state run_cftp returns.
C5_AllCoalesce ==
    /\ InRound => /\ s0 \in mid
                  /\ s1 \in mid
                  /\ Len(applied) = 0 => mid = MidStates(size)
    /\ (pc = "while" /\ Len(updates) = 1) =>
          MidStates(size) = {st \in InvStates(size) :
                                Between(st, MinState(size), MaxState(size))}
    /\ pc = "done" => mid = {ret}

\* run_cftp has returned on a hexagon with two inner paths, not in round one
C5_Witness ==
    /\ pc = "done"
    /\ C(size) = 2
    /\ Len(updates) >= 2
    /\ Cardinality(MidStates(size)) > 3
    /\ mid = {ret}

\* C7 (as stated): the epoch prepended after an unequal round has a step
\* count double the total number of steps of the epochs already in the list
\* (and carries the resume-point snapshot of that round).
C7_AsStated ==
    (pc = "while" /\ Len(updates) >= 2) =>
        /\ updates[1][2] = 2 * SumSteps(Tail(updates))
        /\ updates[1][1] = rng_next

\* C7 (as amended): the epoch prepended after an unequal round has step
\* count 2^n, n the number of epochs already in the list: one more than the
\* total number of their steps and double the step count of the epoch
\* prepended before it; it carries the resume-point snapshot of that round.
C7_PrependedEpoch ==
    (pc = "while" /\ Len(updates) >= 2) =>
        /\ s0 # s1
        /\ updates[1][2] = Pow2(Len(updates) - 1)
        /\ updates[1][2] = SumSteps(Tail(updates)) + 1
        /\ updates[1][2] = 2 * updates[2][2]
        /\ updates[1][1] = rng_next
        /\ rng_next # NoSnapshot

\* the second round ended unequal and the third epoch was prepended
C7_Witness ==
    /\ pc = "while"
    /\ Len(updates) = 3
    /\ s0 # s1
    /\ updates[1][2] = 4
    /\ SumSteps(Tail(updates)) = 3

\* C8: the lookback doubles: the i-th epoch created has step count 2^i, the
\* list holds 2^(n-1), ..., 4, 2, 1 front to back in round n, and a complete
\* round n has applied exactly 2^n - 1 updates to each trajectory.
C8_Doubling ==
    /\ \A i \in 1..Len(updates) : updates[i][2] = Pow2(Len(updates) - i)
    /\ InRound => Len(applied) <= Pow2(Len(updates)) - 1
    /\ RoundComplete => Len(applied) = Pow2(Len(updates)) - 1

\* round three is over with the epochs 4, 2, 1 and seven updates applied
C8_Witness ==
    /\ RoundComplete
    /\ Len(updates) = 3
    /\ <<updates[1][2], updates[2][2], updates[3][2]>> = <<4, 2, 1>>
    /\ Len(applied) = 7

\* C11: on exit run_cftp restores the random source to the snapshot taken
\* after the first processed (oldest) epoch of the final round; in final
\* round n that is position 2^n - 1 of the stream, after every draw consumed
\* in any round, so the next draw is one never used.
C11_ResumePoint ==
    pc = "done" =>
        /\ rng = SetState(rng_next)
        /\ rng = SetState(updates[1][1]) + updates[1][2]
        /\ rng = Pow2(Len(updates)) - 1
        /\ \A i \in 1..Len(applied) : applied[i].pos < rng
        /\ \A i \in 1..Len(prevApplied) : prevApplied[i].pos < rng
        /\ Len(stream) = rng

\* run_cftp has returned after three rounds, the last draw replayed being
\* the one at position 0 and the source left at position 7
C11_Witness ==
    /\ pc = "done"
    /\ Len(updates) = 3
    /\ applied[Len(applied)].pos = 0
    /\ rng = 7
    /\ Len(stream) = 7

\* ---- run_cftp on a hexagon with a side that is not positive
\* LozengeTiling.__init__ stores any size it is given.  random.randint
\* raises ValueError on an empty range, so new_random_update raises exactly
\* when it has no triple to return.  update is only ever called with a triple
\* new_random_update returned, which keeps its indices inside the lists.

\* how far below 1 and above MaxSide the sides of these hexagons go
MaxDeficit == 1

NonPositiveSizes ==
    LET sides == (0 - MaxDeficit)..(MaxSide + MaxDeficit)
    IN  {sz \in sides \X sides \X sides :
            /\ A(sz) <= 0 \/ B(sz) <= 0 \/ C(sz) <= 0
            /\ Cardinality(new_random_update(sz)) <= MaxChoices}

InitNonPositive ==
    /\ size \in NonPositiveSizes
    /\ NoChain
    /\ NoPair
    /\ NoTiling
    /\ NoTraverse
    /\ pc = "while"
    /\ updates = <<<<GetState(0), 1>>>>
    /\ s0 = NoState
    /\ s1 = NoState
    /\ rng_next = NoSnapshot
    /\ rng = 0
    /\ stream = <<>>
    /\ ei = 0
    /\ left = 0
    /\ applied = <<>>
    /\ prevApplied = <<>>
    /\ ret = NoState
    /\ mid = {}

\* u = mc.new_random_update() raises ValueError: run_cftp ends there
DrawFails ==
    /\ pc = "steps"
    /\ left > 0
    /\ new_random_update(size) = {}
    /\ pc' = "ValueError"
    /\ UNCHANGED <<size, chainVars, pairVars, tileVars, wordVars,
                   updates, s0, s1, rng_next, rng,
                   stream, ei, left, applied, prevApplied, ret, mid>>

NextNonPositive ==
    \/ BeginRound
    \/ BeginEpoch
    \/ Step
    \/ DrawFails
    \/ EndEpoch
    \/ Break
    \/ LookFurtherBack

SpecNonPositive == InitNonPositive /\ [][NextNonPositive]_vars

\* C12 (as stated): a side length that is not positive is reported at once
\* as a fatal error: run_cftp applies no update, runs no round to its end
\* and returns no state.
C12_AsStated ==
    (A(size) <= 0 \/ B(size) <= 0 \/ C(size) <= 0) =>
        /\ applied = <<>>
        /\ prevApplied = <<>>
        /\ ~RoundComplete
        /\ ret = NoState

\* run_cftp has returned a state for a hexagon with a side of length 0
C12_ReturnsState ==
    /\ pc = "done"
    /\ ret # NoState
    /\ A(size) = 0
    /\ Len(applied) = 1

\* run_cftp is in its third round on a hexagon with a negative side
C12_RunsOn ==
    /\ pc = "steps"
    /\ Len(updates) = 3
    /\ A(size) < 0 \/ B(size) < 0
    /\ s0 # s1

\* new_random_update has raised, after min_max_states() built the states
C12_Raises ==
    /\ pc = "ValueError"
    /\ s0 # NoState
    /\ applied = <<>>

\* ---- LozengeTiling.get_tiles
\* A polygon is the list of its four vertices (j + dx, y + dy).
Polygon(j, y, offsets) ==
    [n \in 1..4 |-> <<j + offsets[n][1], y + offsets[n][2]>>]

LOffsets == <<<<0, 0>>, <<-1, 0>>, <<-1, -1>>, <<0, -1>>>>
ROffsets == <<<<0, 0>>, <<-1, -1>>, <<-1, -2>>, <<0, -1>>>>
TOffsets == <<<<0, 0>>, <<-1, -1>>, <<0, -1>>, <<1, 0>>>>

\* the range that starts on the path itself
RangeStartOnPath(st, k, j) == st[k][j]

\* for l in range(s[k][j] + 1, s[k + 1][j])
RangeStart(st, k, j) == st[k][j] + 1

RangeStop(st, k, j) == st[k + 1][j]

\* what one pass of the body of the two loops appends to the three lists
CellTiles(st, k, j) ==
    [L |-> IF k > 0 /\ st[k][j] = st[k][j - 1]
           THEN <<Polygon(j, st[k][j], LOffsets)>>
           ELSE <<>>,
     R |-> IF k > 0 /\ st[k][j] # st[k][j - 1]
           THEN <<Polygon(j, st[k][j], ROffsets)>>
           ELSE <<>>,
     T |-> [i \in 1..Max(RangeStop(st, k, j) - RangeStart(st, k, j), 0) |->
               Polygon(j, RangeStart(st, k, j) + i - 1, TOffsets)]]

\* for k in range(c + 1): for j in range(1, a + b + 1): pass number i of the
\* body is at k = (i - 1) div (a + b) and j = (i - 1) mod (a + b) + 1
RECURSIVE TilesFrom(_, _, _)
TilesFrom(sz, st, i) ==
    IF i > (C(sz) + 1) * (A(sz) + B(sz))
    THEN [L |-> <<>>, R |-> <<>>, T |-> <<>>]
    ELSE LET k == (i - 1) \div (A(sz) + B(sz))
             j == ((i - 1) % (A(sz) + B(sz))) + 1
             here == CellTiles(st, k, j)
             rest == TilesFrom(sz, st, i + 1)
         IN  [L |-> here.L \o rest.L,
              R |-> here.R \o rest.R,
              T |-> here.T \o rest.T]

get_tiles(sz, st) == TilesFrom(sz, st, 1)

\* get_tiles called once on an invariant-satisfying state of the hexagon
InitTiles ==
    /\ size \in Sizes
    /\ NoChain
    /\ NoPair
    /\ NoCftp
    /\ NoTraverse
    /\ tiled \in MidStates(size)
    /\ verts = NoTiles

GetTiles ==
    /\ verts = NoTiles
    /\ verts' = get_tiles(size, tiled)
    /\ UNCHANGED <<size, chainVars, pairVars, cftpVars, wordVars, tiled>>

NextTiles == GetTiles

SpecTiles == InitTiles /\ [][NextTiles]_vars

\* ---- what get_tiles has emitted
TileCounts(v) == <<Len(v.L), Len(v.R), Len(v.T)>>

NoTileTwice(v) ==
    LET all == v.L \o v.R \o v.T
    IN  \A m \in 1..Len(all) : \A n \in 1..Len(all) : m # n => all[m] # all[n]

CoversHexagon(v, sz) ==
    /\ TileCounts(v) = <<A(sz) * C(sz), B(sz) * C(sz), A(sz) * B(sz)>>
    /\ Len(v.L) + Len(v.R) + Len(v.T)
          = A(sz) * B(sz) + B(sz) * C(sz) + C(sz) * A(sz)
    /\ NoTileTwice(v)

StrictlyNonCrossing(st, sz) ==
    \A j \in 0..(A(sz) + B(sz)) : \A k \in 0..C(sz) : st[k][j] < st[k + 1][j]

\* C14 (as stated): for every invariant-satisfying state s of the hexagon,
\* get_tiles(s) emits a*c polygons tagged L, b*c tagged R and a*b tagged T,
\* a*b + b*c + c*a in all, none of them twice.
C14_AsStated ==
    verts # NoTiles =>
        /\ StateInvariant(tiled, size)
        /\ CoversHexagon(verts, size)

\* C14 (as amended): for every invariant-satisfying state s of the hexagon
\* in which no two paths touch (height(k,j) < height(k+1,j)), get_tiles(s)
\* emits a*c polygons tagged L, b*c tagged R and a*b tagged T, a*b + b*c +
\* c*a in all, none of them twice.
C14_TilesOfTilings ==
    (verts # NoTiles /\ StrictlyNonCrossing(tiled, size)) =>
        CoversHexagon(verts, size)

\* get_tiles has returned the tiles of a tiling of the 2 x 2 x 2 hexagon
\* that is neither extremal state
C14_Witness ==
    /\ verts # NoTiles
    /\ size = <<2, 2, 2>>
    /\ StrictlyNonCrossing(tiled, size)
    /\ tiled # MinState(size)
    /\ tiled # MaxState(size)
    /\ TileCounts(verts) = <<4, 4, 4>>

\* C15 (as stated): with a = b = c = 1 the tilings of the hexagon, the
\* invariant-satisfying states of LozengeTiling((1,1,1)) or equally the
\* states reachable from the extremal states, are exactly 3.
C15_AsStated ==
    size = <<1, 1, 1>> =>
        /\ Cardinality(Reachable(size, s)) = 3
        /\ Cardinality(MidStates(size)) = 3

\* C15 (as amended): with a = b = c = 1 the tilings of the hexagon, the
\* invariant-satisfying states of LozengeTiling((1,1,1)) or equally the
\* states reachable from the extremal states, are exactly 2: the two
\* extremal states themselves.
C15_TwoTilings ==
    size = <<1, 1, 1>> =>
        /\ Cardinality(Reachable(size, s)) = 2
        /\ Reachable(size, s) = MidStates(size)
        /\ Reachable(size, s) = {ext[1], ext[2]}
        /\ ext[1] # ext[2]

\* on the 1 x 1 x 1 hexagon the walk went to the other tiling and came back
C15_Witness ==
    /\ size = <<1, 1, 1>>
    /\ seen
    /\ u # None
    /\ s # prev
    /\ s = ext[origin]

\* ---- src/src/Misc/Modular_Group.py: the words of the modular group
\* A domain is a list of points of the upper half plane and a generator moves
\* every point of it.  What a word has done to the start domain is the
\* fractional linear map z -> (a z + b) / (c z + d) it composes to, and a
\* domain is modelled by that map, <<a, b, c, d>> with a d - b c = 1, the
\* sign chosen so that m and -m, the same map, are the same tuple.

\* words of at most this length are traversed
MaxLength == 5

Symbols == {"A", "B", "C"}

\* A: z -> z + 1, B: z -> z - 1, C: z -> -1 / z
Generator(symbol) ==
    IF symbol = "A" THEN <<1, 1, 0, 1>>
    ELSE IF symbol = "B" THEN <<1, -1, 0, 1>>
    ELSE <<0, -1, 1, 0>>

Identity == <<1, 0, 0, 1>>

Canonical(m) ==
    IF m[1] > 0 \/ (m[1] = 0 /\ m[3] > 0)
    THEN m
    ELSE <<0 - m[1], 0 - m[2], 0 - m[3], 0 - m[4]>>

\* x after y
Compose(x, y) ==
    <<x[1] * y[1] + x[2] * y[3], x[1] * y[2] + x[2] * y[4],
      x[3] * y[1] + x[4] * y[3], x[3] * y[2] + x[4] * y[4]>>

\* [func(z) for z in domain]
transform(symbol, domain) == Canonical(Compose(Generator(symbol), domain))

\* the automaton with the word CAC let through
AutomatonAcceptingCAC ==
    [q \in 0..9 |->
        << <<<<"A", 1>>, <<"B", 2>>, <<"C", 3>>>>,
           <<<<"A", 1>>, <<"C", 3>>>>,
           <<<<"B", 2>>, <<"C", 3>>>>,
           <<<<"A", 4>>, <<"B", 5>>>>,
           <<<<"A", 8>>, <<"C", 3>>>>,
           <<<<"B", 6>>>>,
           <<<<"B", 2>>, <<"C", 7>>>>,
           <<<<"A", 4>>>>,
           <<<<"A", 1>>, <<"C", 9>>>>,
           <<<<"B", 5>>>> >>[q + 1]]

\* AUTOMATON[q] is the list of the items (symbol, to) of state q, in the
\* order of the dict
AUTOMATON ==
    [q \in 0..9 |->
        << <<<<"A", 1>>, <<"B", 2>>, <<"C", 3>>>>,
           <<<<"A", 1>>, <<"C", 3>>>>,
           <<<<"B", 2>>, <<"C", 3>>>>,
           <<<<"A", 4>>, <<"B", 5>>>>,
           <<<<"A", 8>>>>,
           <<<<"B", 6>>>>,
           <<<<"B", 2>>, <<"C", 7>>>>,
           <<<<"A", 4>>>>,
           <<<<"A", 1>>, <<"C", 9>>>>,
           <<<<"B", 5>>>> >>[q + 1]]

NoSize == <<>>

\* queue = collections.deque([("", 0, start_domain)])
InitTraverse ==
    /\ size = NoSize
    /\ NoChain
    /\ NoPair
    /\ NoCftp
    /\ NoTiling
    /\ length \in 0..MaxLength
    /\ queue = <<<<<<>>, 0, Identity>>>>
    /\ yielded = <<>>

\* one pass of the while loop: popleft, yield, and append the successors
Visit ==
    /\ queue # <<>>
    /\ LET word == Head(queue)[1]
           state == Head(queue)[2]
           domain == Head(queue)[3]
           items == AUTOMATON[state]
       IN  /\ yielded' = Append(yielded, Head(queue))
           /\ queue' = IF Len(word) < length
                       THEN Tail(queue) \o
                            [i \in 1..Len(items) |->
                                <<Append(word, items[i][1]), items[i][2],
                                  transform(items[i][1], domain)>>]
                       ELSE Tail(queue)
    /\ UNCHANGED <<size, chainVars, pairVars, cftpVars, tileVars, length>>

NextTraverse == Visit

SpecTraverse == InitTraverse /\ [][NextTraverse]_vars

\* ---- words, the words the automaton accepts, the elements they denote
WordsUpTo(n) == UNION {[1..m -> Symbols] : m \in 0..n}

RECURSIVE Accepts(_, _)
Accepts(state, word) ==
    \/ word = <<>>
    \/ \E i \in 1..Len(AUTOMATON[state]) :
          /\ AUTOMATON[state][i][1] = Head(word)
          /\ Accepts(AUTOMATON[state][i][2], Tail(word))

RECURSIVE ElementOf(_)
ElementOf(word) ==
    IF word = <<>>
    THEN Identity
    ELSE transform(word[Len(word)], ElementOf(SubSeq(word, 1, Len(word) - 1)))

YieldedWords == {yielded[i][1] : i \in 1..Len(yielded)}

\* C16: the words traverse(n, D) yields are exactly the words of length at
\* most n that AUTOMATON accepts from state 0, each yielded once; different
\* yielded words denote different elements of PSL_2(Z), and every element
\* that is a product of at most n generators is denoted by a yielded word.
C16_UniqueWords ==
    /\ \A i \in 1..Len(yielded) :
          /\ Len(yielded[i][1]) <= length
          /\ yielded[i][3] = ElementOf(yielded[i][1])
          /\ \A j \in 1..Len(yielded) : i # j => yielded[i][1] # yielded[j][1]
    /\ queue = <<>> =>
          /\ YieldedWords = {w \in WordsUpTo(length) : Accepts(0, w)}
          /\ Cardinality(YieldedWords) = Len(yielded)
          /\ Cardinality({ElementOf(w) : w \in YieldedWords}) = Len(yielded)
          /\ {ElementOf(w) : w \in WordsUpTo(length)}
                = {ElementOf(w) : w \in YieldedWords}

\* traverse(4, D) is exhausted: it has yielded 36 words, ACAA among them,
\* and CAC, which is the element BCB, is not one of them
C16_Witness ==
    /\ queue = <<>>
    /\ length = 4
    /\ Len(yielded) = 36
    /\ <<"A", "C", "A", "A">> \in YieldedWords
    /\ <<"B", "C", "B">> \in YieldedWords
    /\ <<"C", "A", "C">> \notin YieldedWords
    /\ ElementOf(<<"C", "A", "C">>) = ElementOf(<<"B", "C", "B">>)

\* ---- a state after the first n updates of a round, applied in order
RECURSIVE AfterUpdates(_, _, _)
AfterUpdates(st, round, n) ==
    IF n = 0
    THEN st
    ELSE LET before == AfterUpdates(st, round, n - 1)
         IN  update(before, round[n].u)

\* C17: in every round both trajectories start from newly built extremal
\* states, whatever the rounds before did to theirs, each receives the same
\* update at every step, and the pointwise order between the two at the
\* start of the round holds after every step of the round.
C17_FreshAndOrdered ==
    InRound =>
        /\ s0 = AfterUpdates(min_max_states(size)[1], applied, Len(applied))
        /\ s1 = AfterUpdates(min_max_states(size)[2], applied, Len(applied))
        /\ Leq(s1, s0)

\* the third round has made steps that moved only one of the trajectories,
\* after two rounds that left them unequal
C17_Witness ==
    /\ pc = "steps"
    /\ Len(updates) = 3
    /\ Len(applied) >= 2
    /\ s0 # s1
    /\ s0 # min_max_states(size)[1]
    /\ s1 = min_max_states(size)[2]
    /\ Len(prevApplied) = 3

\* C18: the boundary is fixed: no update new_random_update can produce
\* changes path 0, path c+1 or the end columns j = 0 and j = a+b of any path
\* (height(k,0) = k and height(k,a+b) = k+b always), and every cell update
\* reads, (k,j-1), (k,j+1), (k-1,j), (k+1,j), is inside [0,c+1] x [0,a+b].
C18_BoundaryFixed ==
    /\ s[0] = ext[origin][0]
    /\ s[C(size) + 1] = ext[origin][C(size) + 1]
    /\ ext[1][0] = ext[2][0]
    /\ ext[1][C(size) + 1] = ext[2][C(size) + 1]
    /\ \A k \in 0..(C(size) + 1) :
          /\ s[k][0] = k
          /\ s[k][A(size) + B(size)] = k + B(size)
    /\ DOMAIN s = 0..(C(size) + 1)
    /\ \A k \in DOMAIN s : DOMAIN s[k] = 0..(A(size) + B(size))
    /\ u = None =>
          \A up \in new_random_update(size) :
              /\ 0 <= up[1] - 1
              /\ up[1] + 1 <= C(size) + 1
              /\ 0 <= up[2] - 1
              /\ up[2] + 1 <= A(size) + B(size)
    /\ u # None =>
          \A k \in DOMAIN s : \A j \in DOMAIN s[k] :
              s[k][j] # prev[k][j] =>
                  /\ k \in 1..C(size)
                  /\ j \in 1..(A(size) + B(size) - 1)

\* the update at the last path and last column a draw can name, next to
\* the fixed path c+1 and the fixed column a+b, has changed the state
C18_Witness ==
    /\ u # None
    /\ u[1] = C(size)
    /\ u[2] = A(size) + B(size) - 1
    /\ s # prev
    /\ C(size) >= 2
    /\ s[C(size) + 1] = ext[origin][C(size) + 1]

\* the update at the same cell in the other direction
Opposite(up) == <<up[1], up[2], 1 - up[3]>>

\* C19: push up and push down are exact inverses on reachable states: when
\* update with (k,j,1) changes a reachable state, update with (k,j,0) right
\* after changes it back, and a push down that changes the state is undone
\* by the push up at the same (k,j); so the transition relation between
\* different states is symmetric.
C19_InversePushes ==
    (u # None /\ s # prev) =>
        /\ update(s, Opposite(u)) = prev
        /\ Opposite(u) \in new_random_update(size)

\* a push down has changed a state that is neither extremal state, on a
\* hexagon with more than one inner path
C19_Witness ==
    /\ u # None
    /\ u[3] = 0
    /\ s # prev
    /\ update(s, Opposite(u)) = prev
    /\ prev # ext[1]
    /\ prev # ext[2]
    /\ C(size) >= 2

\* ---- the tilings: the path systems with the two boundary paths of
\* min_max_states(), inner paths k = 1..c that go from height k to height
\* k + b by steps of 0 or 1, and no two paths touching
IsTiling(st, sz, boundary) ==
    /\ DOMAIN st = 0..(C(sz) + 1)
    /\ st[0] = boundary[0]
    /\ st[C(sz) + 1] = boundary[C(sz) + 1]
    /\ \A k \in 0..(C(sz) + 1) :
          /\ DOMAIN st[k] = 0..(A(sz) + B(sz))
          /\ st[k][0] = k
          /\ st[k][A(sz) + B(sz)] = k + B(sz)
    /\ PathMonotone(st, sz)
    /\ StrictlyNonCrossing(st, sz)

Tilings(sz) ==
    {st \in {WithBoundary(sz, [k \in 1..C(sz) |-> PathFrom(sz, k, f[k])]) :
                f \in [1..C(sz) -> UpSets(sz)]} :
        StrictlyNonCrossing(st, sz)}

\* C20: the chain is irreducible on the tilings: every path system with
\* height(k,0) = k, height(k,a+b) = k+b, steps of 0 or 1 along each path, the
\* two boundary paths of min_max_states() and height(k,j) < height(k+1,j)
\* everywhere is reachable from the first state of min_max_states() by
\* updates, and no other state is reachable.
C20_Irreducible ==
    /\ IsTiling(s, size, ext[1])
    /\ (u = None /\ origin = 1) =>
          /\ Reachable(size, ext[1]) = Tilings(size)
          /\ \A st \in Tilings(size) : IsTiling(st, size, ext[1])

\* the walk from the first state of min_max_states() has reached the second
\* on the largest hexagon and moved on to a tiling that is neither
C20_Witness ==
    /\ origin = 1
    /\ seen
    /\ u # None
    /\ s # prev
    /\ s # ext[1]
    /\ s # ext[2]
    /\ size = <<MaxSide, MaxSide, MaxSide>>
    /\ s \in Tilings(size)
====
